---- MODULE Spec2Model ----
(***************************************************************************)
(* esarange/smart-building-emissions: the emissions calculation engine.   *)
(*                                                                         *)
(* Components (energy, material, water) are rehydrated by ComponentFactory *)
(* from persisted metadata, collected in a Building, optionally modified,  *)
(* and aggregated into a total with a per-component breakdown.             *)
(*                                                                         *)
(* Numbers.  Parameters, quantities and emission factors are integers.     *)
(* Every emissions value is kept in hundredths of a kilogram (the code     *)
(* rounds each to 2 decimals), every percentage in hundredths of a         *)
(* percent.  Arithmetic is exact; round(x, 2) is round-half-even on the    *)
(* exact value.                                                            *)
(***************************************************************************)
EXTENDS Integers, Sequences, FiniteSets, TLC

VARIABLES
    factors,     \* the emission_factors table: sequence of rows
    components,  \* the components table: sequence of rows
    buildings,   \* the buildings table: sequence of rows
    links,       \* the components_by_building join table: sequence of rows
    building,    \* a Building aggregate held by a caller of the core
    inst,        \* a Component instance held by a caller of the core
    out          \* what the last operation returned or raised

vars == <<factors, components, buildings, links, building, inst, out>>

(***************************************************************************)
(* Python values held in a metadata mapping, and dict helpers.             *)
(***************************************************************************)
N(i) == [t |-> "num", n |-> i, s |-> ""]
S(x) == [t |-> "str", n |-> 0, s |-> x]
None == [t |-> "none", n |-> 0, s |-> ""]

EmptyDict == [k \in {} |-> None]

\* bool(v)
Truthy(v) ==
    CASE v.t = "num" -> v.n # 0
      [] v.t = "str" -> v.s # ""
      [] OTHER -> FALSE

\* d.get(k, default)
Get(d, k, default) == IF k \in DOMAIN d THEN d[k] ELSE default

\* {**d, **u} and d.update(u): the keys of u win
Merged(d, u) == u @@ d

\* [param for param in required if param not in d]
RECURSIVE MissingFrom(_, _)
MissingFrom(required, d) ==
    IF required = <<>> THEN <<>>
    ELSE (IF Head(required) \in DOMAIN d THEN <<>> ELSE <<Head(required)>>)
         \o MissingFrom(Tail(required), d)

(***************************************************************************)
(* Results of a call: a value, or an exception with its kind and message.  *)
(***************************************************************************)
Returned(v) == [ok |-> TRUE, value |-> v, kind |-> "", msg |-> "", args |-> <<>>]
Raised(kind, msg, args) ==
    [ok |-> FALSE, value |-> 0, kind |-> kind, msg |-> msg, args |-> args]

(***************************************************************************)
(* round(x, 2) for x = num / den, in hundredths.                           *)
(***************************************************************************)
RoundHalfEven(n, d) ==
    LET q == n \div d
        r == n % d
    IN  IF 2 * r < d THEN q
        ELSE IF 2 * r > d THEN q + 1
        ELSE IF q % 2 = 0 THEN q ELSE q + 1

Round2(num, den) ==
    IF den > 0 THEN RoundHalfEven(100 * num, den)
    ELSE RoundHalfEven(-100 * num, -den)

(***************************************************************************)
(* Emission factor lookup.                                                 *)
(***************************************************************************)
\* EmissionFactorRepository.get_by_name_and_category: called by the service,
\* defined nowhere in the repository class; the rows whose name and category
\* equal the arguments, as the store interface of the specification states.
get_by_name_and_category(name, category, store) ==
    SelectSeq(store, LAMBDA r : name.t = "str" /\ r.name = name.s
                                 /\ r.category = category)

get_emission_factors_by_name_and_category(name, category, store) ==
    get_by_name_and_category(name, category, store)

\* faulty variant of ResolveFactor: the first of several matches is used
ResolveFactorFirst(name, category, store) ==
    LET found == get_emission_factors_by_name_and_category(name, category, store)
    IN  IF found = <<>>
        THEN Raised("ValueError", "No emission factors found for", <<name>>)
        ELSE Returned(found[1].emission_factor)

\* the body shared by _get_energy_emission_factor,
\* _get_material_emission_factor and _get_water_emission_factor
ResolveFactor(name, category, store) ==
    LET found == get_emission_factors_by_name_and_category(name, category, store)
    IN  IF found = <<>>
        THEN Raised("ValueError", "No emission factors found for", <<name>>)
        ELSE IF Len(found) > 1
        THEN Raised("ValueError", "Multiple emission factors found for", <<name>>)
        ELSE Returned(found[1].emission_factor)

_get_energy_emission_factor(md, store) ==
    ResolveFactor(md["energy_source"], "energy", store)

_get_material_emission_factor(md, store) ==
    ResolveFactor(md["material_name"], "material", store)

_get_water_emission_factor(md, store) ==
    ResolveFactor(md["treatment_type"], "water", store)

(***************************************************************************)
(* Component variants.  A component is [name, component_type, metadata,    *)
(* parameters]: metadata is what the formulas read, parameters is what     *)
(* update_parameters writes.                                               *)
(***************************************************************************)
NoComponent ==
    [name |-> "", component_type |-> "", metadata |-> EmptyDict,
     parameters |-> EmptyDict]

KeyError(what, key) ==
    Raised("ValueError", "Missing required parameter for calculation", <<what, key>>)

\* float(v)
FloatFails(v) == v.t # "num"
FloatError(v) ==
    IF v.t = "none"
    THEN Raised("TypeError", "float() argument must be a string or a number", <<>>)
    ELSE Raised("ValueError", "could not convert string to float", <<v.s>>)

NumberTypeError == Raised("TypeError", "unsupported operand type(s)", <<>>)

EnergyComponent_init(name, metadata, kwargs) ==
    [name |-> name, component_type |-> "energy",
     metadata |-> Merged([k \in {"energy_source", "efficiency",
                                 "annual_consumption_kwh"} |-> metadata[k]],
                         kwargs),
     parameters |-> EmptyDict]

\* faulty variant of EnergyComponent_calculate_emissions: the division error
\* of a zero efficiency is not translated
EnergyCalculateRawDivision(md, quantity, store) ==
    IF "energy_source" \notin DOMAIN md THEN KeyError("energy", "energy_source")
    ELSE LET f == _get_energy_emission_factor(md, store) IN
    IF ~f.ok THEN f
    ELSE IF "annual_consumption_kwh" \notin DOMAIN md
    THEN KeyError("energy", "annual_consumption_kwh")
    ELSE IF FloatFails(md["annual_consumption_kwh"])
    THEN FloatError(md["annual_consumption_kwh"])
    ELSE IF "efficiency" \notin DOMAIN md THEN KeyError("energy", "efficiency")
    ELSE IF FloatFails(md["efficiency"]) THEN FloatError(md["efficiency"])
    ELSE IF md["efficiency"].n = 0
    THEN Raised("ZeroDivisionError", "float division by zero", <<>>)
    ELSE LET embodied == Get(md, "embodied_emissions", N(0)) IN
    IF FloatFails(embodied) THEN FloatError(embodied)
    ELSE LET kwh == md["annual_consumption_kwh"].n
             eff == md["efficiency"].n
         IN  Returned(Round2(kwh * f.value * quantity + embodied.n * quantity * eff,
                             eff))

EnergyComponent_calculate_emissions(md, quantity, store) ==
    IF "energy_source" \notin DOMAIN md THEN KeyError("energy", "energy_source")
    ELSE LET f == _get_energy_emission_factor(md, store) IN
    IF ~f.ok THEN f
    ELSE IF "annual_consumption_kwh" \notin DOMAIN md
    THEN KeyError("energy", "annual_consumption_kwh")
    ELSE IF FloatFails(md["annual_consumption_kwh"])
    THEN FloatError(md["annual_consumption_kwh"])
    ELSE IF "efficiency" \notin DOMAIN md THEN KeyError("energy", "efficiency")
    ELSE IF FloatFails(md["efficiency"]) THEN FloatError(md["efficiency"])
    ELSE IF md["efficiency"].n = 0
    THEN Raised("ValueError", "Efficiency cannot be zero", <<>>)
    ELSE LET embodied == Get(md, "embodied_emissions", N(0)) IN
    IF FloatFails(embodied) THEN FloatError(embodied)
    ELSE LET kwh == md["annual_consumption_kwh"].n
             eff == md["efficiency"].n
         IN  Returned(Round2(kwh * f.value * quantity + embodied.n * quantity * eff,
                             eff))

TransportFactorDen == 10000    \* transport_factor = 0.0001 = 1 / 10000
ElectricityFactorDen == 2      \* electricity_factor = 0.5 = 1 / 2
PercentDen == 100              \* recycling_rate / 100

MaterialComponent_init(name, metadata, kwargs) ==
    [name |-> name, component_type |-> "material",
     metadata |-> Merged([k \in {"material_name", "density_kg_m3",
                                 "volume_m3"} |-> metadata[k]],
                         kwargs),
     parameters |-> EmptyDict]

\* the comparison v > 0 or v <= 0 raises unless v is a number
CompareFails(v) == v.t # "num"

\* faulty variant of MaterialComponent_calculate_emissions: a negative
\* distance is counted
MaterialCalculateSignedTransport(md, quantity, store) ==
    IF "material_name" \notin DOMAIN md THEN KeyError("material", "material_name")
    ELSE LET f == _get_material_emission_factor(md, store) IN
    IF ~f.ok THEN f
    ELSE LET density == Get(md, "density_kg_m3", None)
             volume == Get(md, "volume_m3", None)
             byMass == Truthy(density) /\ Truthy(volume)
             rate == Get(md, "recycling_rate", N(0))
             distance == Get(md, "transport_distance_km", N(0))
         IN
    IF byMass /\ (density.t # "num" \/ volume.t # "num") THEN NumberTypeError
    ELSE IF CompareFails(rate) THEN NumberTypeError
    ELSE IF CompareFails(distance) THEN NumberTypeError
    ELSE LET base == IF byMass THEN volume.n * density.n * f.value
                     ELSE quantity * f.value
             kept == IF rate.n > 0 THEN PercentDen - rate.n ELSE PercentDen
             transport == quantity * distance.n
         \* base * kept / 100 + transport / 10000
         IN  Returned(Round2(base * kept * (TransportFactorDen \div PercentDen)
                             + transport, TransportFactorDen))

MaterialComponent_calculate_emissions(md, quantity, store) ==
    IF "material_name" \notin DOMAIN md THEN KeyError("material", "material_name")
    ELSE LET f == _get_material_emission_factor(md, store) IN
    IF ~f.ok THEN f
    ELSE LET density == Get(md, "density_kg_m3", None)
             volume == Get(md, "volume_m3", None)
             byMass == Truthy(density) /\ Truthy(volume)
             rate == Get(md, "recycling_rate", N(0))
             distance == Get(md, "transport_distance_km", N(0))
         IN
    IF byMass /\ (density.t # "num" \/ volume.t # "num") THEN NumberTypeError
    ELSE IF CompareFails(rate) THEN NumberTypeError
    ELSE IF CompareFails(distance) THEN NumberTypeError
    ELSE LET base == IF byMass THEN volume.n * density.n * f.value
                     ELSE quantity * f.value
             kept == IF rate.n > 0 THEN PercentDen - rate.n ELSE PercentDen
             transport == IF distance.n <= 0 THEN 0 ELSE quantity * distance.n
         \* base * kept / 100 + transport / 10000
         IN  Returned(Round2(base * kept * (TransportFactorDen \div PercentDen)
                             + transport, TransportFactorDen))

WaterComponent_init(name, metadata, kwargs) ==
    [name |-> name, component_type |-> "water",
     metadata |-> Merged([k \in {"annual_consumption_liters",
                                 "water_treatment_factor",
                                 "treatment_type"} |-> metadata[k]],
                         kwargs),
     parameters |-> EmptyDict]

\* faulty variant of WaterComponent_calculate_emissions: negative pumping
\* energy is counted
WaterCalculateUnclamped(md, quantity, store) ==
    IF "treatment_type" \notin DOMAIN md THEN KeyError("water", "treatment_type")
    ELSE LET f == _get_water_emission_factor(md, store) IN
    IF ~f.ok THEN f
    ELSE IF "annual_consumption_liters" \notin DOMAIN md
    THEN KeyError("water", "annual_consumption_liters")
    ELSE IF "water_treatment_factor" \notin DOMAIN md
    THEN KeyError("water", "water_treatment_factor")
    ELSE LET liters == md["annual_consumption_liters"]
             treatment == md["water_treatment_factor"]
             pumping == Get(md, "pumping_energy_kwh", N(0))
         IN
    IF liters.t # "num" \/ treatment.t # "num" THEN NumberTypeError
    ELSE IF CompareFails(pumping) THEN NumberTypeError
    ELSE Returned(Round2(ElectricityFactorDen * liters.n * treatment.n
                             * f.value * quantity + pumping.n * quantity,
                         ElectricityFactorDen))

WaterComponent_calculate_emissions(md, quantity, store) ==
    IF "treatment_type" \notin DOMAIN md THEN KeyError("water", "treatment_type")
    ELSE LET f == _get_water_emission_factor(md, store) IN
    IF ~f.ok THEN f
    ELSE IF "annual_consumption_liters" \notin DOMAIN md
    THEN KeyError("water", "annual_consumption_liters")
    ELSE IF "water_treatment_factor" \notin DOMAIN md
    THEN KeyError("water", "water_treatment_factor")
    ELSE LET liters == md["annual_consumption_liters"]
             treatment == md["water_treatment_factor"]
             pumping == Get(md, "pumping_energy_kwh", N(0))
         IN
    IF liters.t # "num" \/ treatment.t # "num" THEN NumberTypeError
    ELSE IF CompareFails(pumping) THEN NumberTypeError
    ELSE LET pumped == IF pumping.n <= 0 THEN 0 ELSE pumping.n
         \* liters * treatment * factor * quantity + pumped / 2 * quantity
         IN  Returned(Round2(ElectricityFactorDen * liters.n * treatment.n
                                 * f.value * quantity + pumped * quantity,
                             ElectricityFactorDen))

\* component.calculate_emissions(quantity): dispatch on the variant
calculate_emissions(c, quantity, store) ==
    CASE c.component_type = "energy" ->
            EnergyComponent_calculate_emissions(c.metadata, quantity, store)
      [] c.component_type = "material" ->
            MaterialComponent_calculate_emissions(c.metadata, quantity, store)
      [] OTHER ->
            WaterComponent_calculate_emissions(c.metadata, quantity, store)

\* Component.update_parameters
update_parameters(c, new_parameters) ==
    [c EXCEPT !.parameters = Merged(c.parameters, new_parameters)]

(***************************************************************************)
(* ComponentFactory.                                                       *)
(***************************************************************************)
\* str.lower() on the type tags used here
Lower(tag) ==
    CASE tag = "ENERGY" -> "energy"
      [] tag = "Material" -> "material"
      [] OTHER -> tag

Created(c) == [ok |-> TRUE, comp |-> c, kind |-> "", msg |-> "", args |-> <<>>]
NotCreated(kind, msg, args) ==
    [ok |-> FALSE, comp |-> NoComponent, kind |-> kind, msg |-> msg, args |-> args]

\* faulty variant of _validate_metadata: only the first missing key is reported
ValidateFirstMissing(required_params, metadata) ==
    LET missing_params == MissingFrom(required_params, metadata)
    IN  IF missing_params # <<>>
        THEN NotCreated("ValueError", "Missing required metadata",
                        <<Head(missing_params)>>)
        ELSE Created(NoComponent)

\* returns normally (ok) or raises ValueError listing the missing keys
_validate_metadata(required_params, metadata) ==
    LET missing_params == MissingFrom(required_params, metadata)
    IN  IF missing_params # <<>>
        THEN NotCreated("ValueError", "Missing required metadata", missing_params)
        ELSE Created(NoComponent)

EnergyRequired == <<"energy_source", "efficiency", "annual_consumption_kwh">>
MaterialRequired == <<"material_name", "density_kg_m3", "volume_m3">>
WaterRequired == <<"annual_consumption_liters", "water_treatment_factor",
                   "treatment_type">>

\* the factory passes metadata as the single keyword 'metadata': the
\* constructor's **kwargs is empty
_create_energy_component(name, metadata) ==
    LET v == _validate_metadata(EnergyRequired, metadata)
    IN  IF ~v.ok THEN v ELSE Created(EnergyComponent_init(name, metadata, EmptyDict))

_create_material_component(name, metadata) ==
    LET v == _validate_metadata(MaterialRequired, metadata)
    IN  IF ~v.ok THEN v ELSE Created(MaterialComponent_init(name, metadata, EmptyDict))

_create_water_component(name, metadata) ==
    LET v == _validate_metadata(WaterRequired, metadata)
    IN  IF ~v.ok THEN v ELSE Created(WaterComponent_init(name, metadata, EmptyDict))

\* faulty variant of create_component: the reserved tag is built as energy
CreateComponentReservedAsEnergy(component_type, name, metadata) ==
    LET tag == Lower(component_type)
    IN  CASE tag \in {"energy", "transport"} -> _create_energy_component(name, metadata)
          [] tag = "material" -> _create_material_component(name, metadata)
          [] tag = "water" -> _create_water_component(name, metadata)
          [] OTHER -> NotCreated("ValueError", "Unknown component type", <<tag>>)

create_component(component_type, name, metadata) ==
    LET tag == Lower(component_type)
    IN  CASE tag = "energy" -> _create_energy_component(name, metadata)
          [] tag = "material" -> _create_material_component(name, metadata)
          [] tag = "water" -> _create_water_component(name, metadata)
          [] OTHER -> NotCreated("ValueError", "Unknown component type", <<tag>>)

(***************************************************************************)
(* Building: [components, modifications]; components is the ordered list   *)
(* of (component, quantity) pairs.  A breakdown is a dict keyed by         *)
(* component name, kept as the sequence of its [name, entry] items in      *)
(* insertion order.                                                        *)
(***************************************************************************)
NewBuilding == [components |-> <<>>, modifications |-> EmptyDict]

add_component(b, component, quantity) ==
    [b EXCEPT !.components = Append(@, [component |-> component,
                                        quantity |-> quantity])]

\* faulty variant of apply_modifications: every entry of the modifications is
\* merged into every component
ApplyModificationsToAll(b, modifications) ==
    [components |->
        [i \in 1..Len(b.components) |->
            [b.components[i] EXCEPT !.component.parameters =
                LET names == DOMAIN modifications
                    RECURSIVE All(_, _)
                    All(d, rest) ==
                        IF rest = {} THEN d
                        ELSE LET n == CHOOSE x \in rest : TRUE
                             IN  All(Merged(d, modifications[n]), rest \ {n})
                IN  All(@, names)]],
     modifications |-> modifications]

\* modifications.get(component.name, {}) applied when it is a non-empty dict
apply_modifications(b, modifications) ==
    [components |->
        [i \in 1..Len(b.components) |->
            LET item == b.components[i]
                component_mods == Get(modifications, item.component.name, EmptyDict)
            IN  IF component_mods # EmptyDict
                THEN [item EXCEPT !.component = update_parameters(@, component_mods)]
                ELSE item],
     modifications |-> modifications]

\* breakdown[name] = entry
DictSet(d, name, entry) ==
    IF \E i \in 1..Len(d) : d[i].name = name
    THEN [i \in 1..Len(d) |->
            IF d[i].name = name THEN [name |-> name, entry |-> entry] ELSE d[i]]
    ELSE Append(d, [name |-> name, entry |-> entry])

\* faulty variant of SuccessEntry: the placeholder percentage is 100
SuccessEntryFull(component, quantity, component_emissions) ==
    [emissions |-> component_emissions, quantity |-> quantity,
     type |-> component.component_type,
     has_percentage |-> TRUE, percentage |-> 10000,
     has_error |-> FALSE, error |-> <<>>]

\* the entry of a component whose calculation succeeded
SuccessEntry(component, quantity, component_emissions) ==
    [emissions |-> component_emissions, quantity |-> quantity,
     type |-> component.component_type,
     has_percentage |-> TRUE, percentage |-> 0,
     has_error |-> FALSE, error |-> <<>>]

\* the entry of a component whose calculation raised e
ErrorEntry(component, quantity, e) ==
    [emissions |-> 0, quantity |-> quantity,
     type |-> component.component_type,
     has_percentage |-> FALSE, percentage |-> 0,
     has_error |-> TRUE, error |-> <<e.msg, e.args>>]

\* faulty variant of LoopStep: a failure ends the loop
LoopStepAbort(acc, item, store) ==
    LET r == calculate_emissions(item.component, item.quantity, store)
        e == IF r.ok THEN SuccessEntry(item.component, item.quantity, r.value)
             ELSE ErrorEntry(item.component, item.quantity, r)
    IN  IF acc.written # <<>> /\ acc.written[Len(acc.written)].has_error
        THEN acc
        ELSE [acc EXCEPT
                !.total = @ + (IF r.ok THEN r.value ELSE 0),
                !.breakdown = DictSet(@, item.component.name, e),
                !.written = Append(@, e)]

\* faulty variant of LoopStep: the total is assigned, not accumulated
LoopStepAssign(acc, item, store) ==
    LET r == calculate_emissions(item.component, item.quantity, store)
        e == IF r.ok THEN SuccessEntry(item.component, item.quantity, r.value)
             ELSE ErrorEntry(item.component, item.quantity, r)
    IN  [acc EXCEPT
            !.total = IF r.ok THEN r.value ELSE @,
            !.breakdown = DictSet(@, item.component.name, e),
            !.written = Append(@, e)]

\* one iteration of the loop of calculate_total_emissions; written is the
\* history of the entries assigned, one per iteration
LoopStep(acc, item, store) ==
    LET r == calculate_emissions(item.component, item.quantity, store)
        e == IF r.ok THEN SuccessEntry(item.component, item.quantity, r.value)
             ELSE ErrorEntry(item.component, item.quantity, r)
    IN  [acc EXCEPT
            !.total = @ + (IF r.ok THEN r.value ELSE 0),
            !.breakdown = DictSet(@, item.component.name, e),
            !.written = Append(@, e)]

RECURSIVE Loop(_, _, _)
Loop(acc, items, store) ==
    IF items = <<>> THEN acc
    ELSE Loop(LoopStep(acc, Head(items), store), Tail(items), store)

\* math.ceil in place of round to 2 decimals
CeilDiv(n, d) == -((-n) \div d)

\* faulty variant of Percentages: each percentage is rounded up
PercentagesCeil(breakdown, total_emissions) ==
    IF total_emissions > 0
    THEN [i \in 1..Len(breakdown) |->
            IF breakdown[i].entry.emissions > 0
            THEN [breakdown[i] EXCEPT !.entry.has_percentage = TRUE,
                    !.entry.percentage =
                        CeilDiv(breakdown[i].entry.emissions * 10000, total_emissions)]
            ELSE breakdown[i]]
    ELSE breakdown

\* the second pass: percentages of the unrounded total
Percentages(breakdown, total_emissions) ==
    IF total_emissions > 0
    THEN [i \in 1..Len(breakdown) |->
            IF breakdown[i].entry.emissions > 0
            THEN [breakdown[i] EXCEPT !.entry.has_percentage = TRUE,
                    !.entry.percentage =
                        Round2(breakdown[i].entry.emissions * 100, total_emissions)]
            ELSE breakdown[i]]
    ELSE breakdown

calculate_total_emissions(b, store) ==
    LET acc == Loop([total |-> 0, breakdown |-> <<>>, written |-> <<>>],
                    b.components, store)
    IN  [total |-> Round2(acc.total, 100),
         breakdown |-> Percentages(acc.breakdown, acc.total),
         written |-> acc.written]

get_component_count(b) == Len(b.components)

(***************************************************************************)
(* Bounds and inputs.                                                      *)
(***************************************************************************)
MaxComponents == 3     \* components added to a Building
MaxQuantity == 1       \* quantities are 0..MaxQuantity

Quantities == 0..MaxQuantity

Factor(id, name, category, value) ==
    [id |-> id, name |-> name, category |-> category, emission_factor |-> value]

\* a factor table with one electricity factor, two gas factors, one
\* concrete factor and no water factor
BuildingStore ==
    << Factor(1, "electricity", "energy", 1), Factor(2, "gas", "energy", 2),
       Factor(3, "gas", "energy", 3), Factor(4, "concrete", "material", 1) >>

Energy(source, efficiency, kwh) ==
    ("energy_source" :> source) @@ ("efficiency" :> efficiency)
        @@ ("annual_consumption_kwh" :> kwh)

Material(material, density, volume) ==
    ("material_name" :> material) @@ ("density_kg_m3" :> density)
        @@ ("volume_m3" :> volume)

Water(liters, treatment, type) ==
    ("annual_consumption_liters" :> liters)
        @@ ("water_treatment_factor" :> treatment) @@ ("treatment_type" :> type)

Row(name, type, metadata) ==
    [name |-> name, component_type |-> type, metadata |-> metadata]

\* persisted component rows from which a Building is rehydrated: two
\* rows share the name hvac, one has efficiency 0, one a null consumption,
\* one a negative consumption
BuildingRows ==
    { Row("hvac", "energy", Energy(S("electricity"), N(1), N(1))),
      Row("hvac", "energy", Energy(S("electricity"), N(0), N(1))),
      Row("lamp", "energy", Energy(S("electricity"), N(1), N(3))),
      Row("wall", "material", Material(S("concrete"), N(1), N(3))),
      Row("pump", "energy", Energy(S("electricity"), N(1), None)),
      Row("solar", "energy", Energy(S("electricity"), N(1), N(-1))) }

\* modifications sent with a calculation
ModInputs ==
    { ("hvac" :> ("efficiency" :> N(1))),
      ("lamp" :> ("annual_consumption_kwh" :> N(0)))
          @@ ("hvac" :> ("efficiency" :> N(3))) }

Idle(op) == [op |-> op]

\* no component rehydrated yet
NoInstance == [row |-> Row("", "", EmptyDict), comp |-> NoComponent]

(***************************************************************************)
(* SpecBuilding: a caller of the core builds a Building from rehydrated    *)
(* components, applies modifications and calculates.                       *)
(***************************************************************************)
InitBuilding ==
    /\ factors = BuildingStore
    /\ components = <<>>
    /\ buildings = <<>>
    /\ links = <<>>
    /\ building = NewBuilding
    /\ inst = NoInstance
    /\ out = Idle("init")

\* every component is added before the modifications are applied, the order
\* of calculate_building_emissions
Building_add_component(row, quantity) ==
    LET made == create_component(row.component_type, row.name, row.metadata)
    IN  /\ Len(building.components) < MaxComponents
        /\ building.modifications = EmptyDict
        /\ made.ok
        /\ building' = add_component(building, made.comp, quantity)
        /\ out' = Idle("add_component")
        /\ UNCHANGED <<factors, components, buildings, links, inst>>

\* applied once per Building, as the service does
Building_apply_modifications(modifications) ==
    /\ building.components # <<>>
    /\ building.modifications = EmptyDict
    /\ building' = apply_modifications(building, modifications)
    /\ out' = Idle("apply_modifications")
    /\ UNCHANGED <<factors, components, buildings, links, inst>>

\* faulty variant of Building_calculate_total_emissions: the call empties
\* the component list
BuildingCalculateConsuming ==
    /\ out' = [op |-> "calculate_total_emissions",
               repeat |-> out.op = "calculate_total_emissions"]
                @@ calculate_total_emissions(building, factors)
    /\ building' = [building EXCEPT !.components = <<>>]
    /\ UNCHANGED <<factors, components, buildings, links, inst>>

\* the method assigns no field of the Building or of a component; repeat
\* tells whether the call directly follows another one
Building_calculate_total_emissions ==
    /\ out' = [op |-> "calculate_total_emissions",
               repeat |-> out.op = "calculate_total_emissions"]
                @@ calculate_total_emissions(building, factors)
    /\ UNCHANGED <<factors, components, buildings, links, building, inst>>

NextBuilding ==
    \/ \E row \in BuildingRows, quantity \in Quantities :
            Building_add_component(row, quantity)
    \/ \E modifications \in ModInputs : Building_apply_modifications(modifications)
    \/ Building_calculate_total_emissions

SpecBuilding == InitBuilding /\ [][NextBuilding]_vars

(***************************************************************************)
(* SpecComponent: a caller of the core rehydrates one component with the   *)
(* factory and calculates its emissions, against any small factor table.   *)
(* inst is [row, comp]: the component and the persisted row it came from.  *)
(***************************************************************************)
MaxFactors == 2        \* rows of the emission_factors table

FactorRows ==
    { [name |-> "electricity", category |-> "energy", emission_factor |-> 1],
      [name |-> "electricity", category |-> "energy", emission_factor |-> 2],
      [name |-> "electricity", category |-> "material", emission_factor |-> 3],
      [name |-> "concrete", category |-> "material", emission_factor |-> 1],
      [name |-> "concrete", category |-> "material", emission_factor |-> 2],
      [name |-> "standard", category |-> "water", emission_factor |-> 1],
      [name |-> "standard", category |-> "water", emission_factor |-> 3] }

\* the tables of at most MaxFactors rows, ids given in insertion order
FactorStores ==
    UNION { { [i \in 1..n |-> [id |-> i] @@ rows[i]] : rows \in [1..n -> FactorRows] }
            : n \in 0..MaxFactors }

Restrict(d, keys) == [k \in keys |-> d[k]]
SubDicts(d) == { Restrict(d, keys) : keys \in SUBSET DOMAIN d }

EnergyFull == Energy(S("electricity"), N(3), N(1)) @@ ("embodied_emissions" :> N(2))
MaterialFull ==
    Material(S("concrete"), N(2), N(3)) @@ ("recycling_rate" :> N(50))
        @@ ("transport_distance_km" :> N(100))
WaterFull == Water(N(2), N(1), S("standard")) @@ ("pumping_energy_kwh" :> N(3))

\* what the factory is given: every subset of the keys of a full metadata,
\* under its own type tag; also other tags and other values
FactoryInputs ==
    { Row("c", "energy", md) : md \in SubDicts(EnergyFull) }
    \cup { Row("c", "material", md) : md \in SubDicts(MaterialFull) }
    \cup { Row("c", "water", md) : md \in SubDicts(WaterFull) }
    \cup { Row("c", "ENERGY", Energy(S("electricity"), N(2), N(1))),
           Row("c", "energy", Energy(S("electricity"), N(0), N(1))),
           Row("c", "transport", Energy(S("electricity"), N(1), N(1))),
           Row("c", "plasma", EmptyDict),
           Row("c", "material", Material(S("concrete"), N(0), N(3))),
           Row("c", "material", Material(S("concrete"), N(2), None)) }

\* what a caller passes when constructing a variant itself: the optional
\* keys go in as keyword arguments
DirectInputs ==
    { Row("d", "energy", EnergyFull),
      Row("d", "material", MaterialFull),
      Row("d", "material", ("recycling_rate" :> N(0)) @@ MaterialFull),
      Row("d", "material", ("recycling_rate" :> None) @@ MaterialFull),
      Row("d", "material", Restrict(MaterialFull, DOMAIN MaterialFull
                                                     \ {"recycling_rate"})),
      Row("d", "material", ("transport_distance_km" :> N(0)) @@ MaterialFull),
      Row("d", "material", ("transport_distance_km" :> N(-100)) @@ MaterialFull),
      Row("d", "material", Restrict(MaterialFull, DOMAIN MaterialFull
                                                     \ {"transport_distance_km"})),
      Row("d", "material", ("density_kg_m3" :> N(0)) @@ MaterialFull),
      Row("d", "water", WaterFull),
      Row("d", "water", ("pumping_energy_kwh" :> N(-3)) @@ WaterFull) }

InitComponent ==
    /\ factors \in FactorStores
    /\ components = <<>>
    /\ buildings = <<>>
    /\ links = <<>>
    /\ building = NewBuilding
    /\ inst = NoInstance
    /\ out = Idle("init")

Factory_create_component(row) ==
    LET made == create_component(row.component_type, row.name, row.metadata)
    IN  /\ inst = NoInstance
        /\ inst' = IF made.ok THEN [row |-> row, comp |-> made.comp] ELSE inst
        /\ out' = [op |-> "create_component", row |-> row, result |-> made]
        /\ UNCHANGED <<factors, components, buildings, links, building>>

\* EnergyComponent(name, metadata, **kwargs) and its siblings, called with
\* the required keys as metadata and the others as keyword arguments
Construct(row) ==
    LET required == CASE row.component_type = "energy" -> EnergyRequired
                      [] row.component_type = "material" -> MaterialRequired
                      [] OTHER -> WaterRequired
        keys == { required[i] : i \in 1..Len(required) }
        metadata == Restrict(row.metadata, keys)
        kwargs == Restrict(row.metadata, DOMAIN row.metadata \ keys)
    IN  CASE row.component_type = "energy" ->
                EnergyComponent_init(row.name, metadata, kwargs)
          [] row.component_type = "material" ->
                MaterialComponent_init(row.name, metadata, kwargs)
          [] OTHER -> WaterComponent_init(row.name, metadata, kwargs)

Component_init(row) ==
    /\ inst = NoInstance
    /\ inst' = [row |-> row, comp |-> Construct(row)]
    /\ out' = [op |-> "init_component", row |-> row]
    /\ UNCHANGED <<factors, components, buildings, links, building>>

Component_calculate_emissions(quantity) ==
    /\ inst # NoInstance
    /\ out' = [op |-> "calculate_emissions", quantity |-> quantity,
               result |-> calculate_emissions(inst.comp, quantity, factors)]
    /\ UNCHANGED <<factors, components, buildings, links, building, inst>>

NextComponent ==
    \/ \E row \in FactoryInputs : Factory_create_component(row)
    \/ \E row \in DirectInputs : Component_init(row)
    \/ \E quantity \in Quantities : Component_calculate_emissions(quantity)

SpecComponent == InitComponent /\ [][NextComponent]_vars

(***************************************************************************)
(* Spec: the services over the persisted tables.  Rows get their ids from  *)
(* the database in insertion order.                                        *)
(***************************************************************************)
MaxRows == 2           \* rows of the components table
MaxLinks == 2          \* rows of the components_by_building table

\* ComponentService.get_component_template(...)['required_metadata']
ServiceRequired(component_type) ==
    CASE component_type = "energy" ->
            <<"energy_source", "efficiency", "annual_consumption_kwh">>
      [] component_type = "material" -> <<"material_name", "density_kg_m3">>
      [] component_type = "water" ->
            <<"annual_consumption_liters", "water_treatment_factor">>
      [] component_type = "transport" ->
            <<"vehicle_type", "fuel_type", "annual_distance_km">>
      [] OTHER -> <<>>

\* ComponentService._validate_metadata: the missing keys, <<>> when valid
ComponentService_validate_metadata(component_type, metadata) ==
    MissingFrom(ServiceRequired(component_type), metadata)

\* what clients ask ComponentService.create_component to store
ServiceInputs ==
    { Row("hvac", "energy", Energy(S("electricity"), N(1), N(1))),
      Row("lamp", "energy", Energy(S("electricity"), N(0), N(3))),
      Row("wall", "material",
          ("material_name" :> S("concrete")) @@ ("density_kg_m3" :> N(2))),
      Row("slab", "material", ("material_name" :> S("concrete"))) }

\* the buildings clients create, each once; ids beyond them match no row
BuildingNames == {"office"}
BuildingIds == 1..(Cardinality(BuildingNames) + 1)

ServiceMods == { EmptyDict, ("hvac" :> ("efficiency" :> N(3))) }

\* the quantities clients pass to calculate_component_emissions
ComponentQuantities == {1, 2}

Failed(op, kind, msg, args) ==
    [op |-> op, status |-> "raised", kind |-> kind, msg |-> msg, args |-> args]

Init ==
    /\ factors = BuildingStore
    /\ components = <<>>
    /\ buildings = <<>>
    /\ links = <<>>
    /\ building = NewBuilding
    /\ inst = NoInstance
    /\ out = Idle("init")

ComponentService_create_component(row) ==
    LET missing == ComponentService_validate_metadata(row.component_type,
                                                      row.metadata)
    IN  /\ Len(components) < MaxRows
        /\ IF missing # <<>>
           THEN /\ out' = Failed("create_component", "ValueError",
                                 "Missing required metadata for", missing)
                /\ UNCHANGED components
           ELSE /\ components' = Append(components,
                                        [id |-> Len(components) + 1] @@ row)
                /\ out' = [op |-> "create_component", status |-> "ok",
                           id |-> Len(components) + 1]
        /\ UNCHANGED <<factors, buildings, links, building, inst>>

\* the building row is inserted, then add_components_to_building calls
\* DatabaseHandler.insert_many, which the handler does not define
BuildingService_create_building(name) ==
    /\ \A i \in 1..Len(buildings) : buildings[i].name # name
    /\ buildings' = Append(buildings, [id |-> Len(buildings) + 1, name |-> name,
                                       location |-> "here"])
    /\ out' = Failed("create_building", "AttributeError",
                     "'DatabaseHandler' object has no attribute", <<"insert_many">>)
    /\ UNCHANGED <<factors, components, links, building, inst>>

BuildingService_add_component_to_building(building_id, component_id, quantity) ==
    /\ Len(links) < MaxLinks
    /\ \E i \in 1..Len(buildings) : buildings[i].id = building_id
    /\ \E i \in 1..Len(components) : components[i].id = component_id
    /\ links' = Append(links, [id |-> Len(links) + 1, building_id |-> building_id,
                               component_id |-> component_id,
                               quantity |-> quantity])
    /\ out' = [op |-> "add_component_to_building", status |-> "ok"]
    /\ UNCHANGED <<factors, components, buildings, building, inst>>

\* ComponentsByBuildingRepository.get_components_for_building: the join rows
\* of the building, each with its component row embedded
get_components_for_building(building_id, linkRows, componentRows) ==
    LET mine == SelectSeq(linkRows, LAMBDA l : l.building_id = building_id)
    IN  [i \in 1..Len(mine) |->
            [quantity |-> mine[i].quantity,
             components |-> CHOOSE c \in { componentRows[j] : j \in 1..Len(componentRows) } :
                                c.id = mine[i].component_id]]

\* the loop of calculate_building_emissions that rehydrates and adds the
\* components: the Building, or the error the factory raised
RECURSIVE Rehydrate(_, _)
Rehydrate(b, component_data) ==
    IF component_data = <<>> THEN [ok |-> TRUE, building |-> b]
    ELSE LET row == Head(component_data).components
             made == create_component(row.component_type, row.name, row.metadata)
         IN  IF ~made.ok THEN [ok |-> FALSE, building |-> b] @@ made
             ELSE Rehydrate(add_component(b, made.comp, Head(component_data).quantity),
                            Tail(component_data))

\* ComponentRepository.get_by_id: the rows with that id
get_by_id(component_id, componentRows) ==
    SelectSeq(componentRows, LAMBDA c : c.id = component_id)

\* faulty variant of ComponentService_calculate_component_emissions: a
\* failed calculation is returned as a result with emissions 0
CalculateComponentSwallowing(component_id, quantity) ==
    LET found == get_by_id(component_id, components) IN
    /\ IF found = <<>>
       THEN out' = [component_id |-> component_id, quantity |-> quantity]
                       @@ Failed("calculate_component_emissions", "ValueError",
                                 "Component not found", <<component_id>>)
       ELSE LET component_data == found[1]
                made == create_component(component_data.component_type,
                                         component_data.name,
                                         component_data.metadata)
                emissions == calculate_emissions(made.comp, quantity, factors)
            IN  IF ~made.ok
                THEN out' = [component_id |-> component_id, quantity |-> quantity]
                                @@ Failed("calculate_component_emissions",
                                          made.kind, made.msg, made.args)
                ELSE out' = [op |-> "calculate_component_emissions",
                             status |-> "ok",
                             component_id |-> component_id,
                             component_name |-> component_data.name,
                             component_type |-> component_data.component_type,
                             quantity |-> quantity,
                             emissions |-> emissions.value]
    /\ UNCHANGED <<factors, components, buildings, links, building, inst>>

\* ComponentService.calculate_component_emissions: nothing is caught, so the
\* not-found error, a factory error and a calculation error all end the call
ComponentService_calculate_component_emissions(component_id, quantity) ==
    LET found == get_by_id(component_id, components) IN
    /\ IF found = <<>>
       THEN out' = [component_id |-> component_id, quantity |-> quantity]
                       @@ Failed("calculate_component_emissions", "ValueError",
                                 "Component not found", <<component_id>>)
       ELSE LET component_data == found[1]
                made == create_component(component_data.component_type,
                                         component_data.name,
                                         component_data.metadata)
                emissions == calculate_emissions(made.comp, quantity, factors)
            IN  IF ~made.ok
                THEN out' = [component_id |-> component_id, quantity |-> quantity]
                                @@ Failed("calculate_component_emissions",
                                          made.kind, made.msg, made.args)
                ELSE IF ~emissions.ok
                THEN out' = [component_id |-> component_id, quantity |-> quantity]
                                @@ Failed("calculate_component_emissions",
                                          emissions.kind, emissions.msg,
                                          emissions.args)
                ELSE out' = [op |-> "calculate_component_emissions",
                             status |-> "ok",
                             component_id |-> component_id,
                             component_name |-> component_data.name,
                             component_type |-> component_data.component_type,
                             quantity |-> quantity,
                             emissions |-> emissions.value]
    /\ UNCHANGED <<factors, components, buildings, links, building, inst>>

\* faulty variant of BuildingService_calculate_building_emissions: a missing
\* building is calculated as an empty one
CalculateMissingBuildingAsEmpty(building_id, modifications) ==
    /\ IF ~\E i \in 1..Len(buildings) : buildings[i].id = building_id
       THEN /\ out' = [op |-> "calculate_building_emissions", status |-> "ok",
                           total_emissions |-> 0, breakdown |-> <<>>,
                           written |-> <<>>, building_id |-> building_id,
                           component_count |-> 0,
                           modifications_applied |-> modifications]
            /\ building' = NewBuilding
       ELSE LET component_data ==
                    get_components_for_building(building_id, links, components)
                loaded == Rehydrate(NewBuilding, component_data)
                modified == IF modifications # EmptyDict
                            THEN apply_modifications(loaded.building, modifications)
                            ELSE loaded.building
                result == calculate_total_emissions(modified, factors)
            IN  IF ~loaded.ok
                THEN /\ out' = [building_id |-> building_id]
                                    @@ Failed("calculate_building_emissions",
                                              loaded.kind, loaded.msg, loaded.args)
                     /\ building' = loaded.building
                ELSE /\ out' = [op |-> "calculate_building_emissions",
                                status |-> "ok",
                                total_emissions |-> result.total,
                                breakdown |-> result.breakdown,
                                written |-> result.written,
                                building_id |-> building_id,
                                component_count |-> Len(component_data),
                                modifications_applied |-> modifications]
                     /\ building' = modified
    /\ UNCHANGED <<factors, components, buildings, links, inst>>

BuildingService_calculate_building_emissions(building_id, modifications) ==
    /\ IF ~\E i \in 1..Len(buildings) : buildings[i].id = building_id
       THEN /\ out' = [building_id |-> building_id]
                           @@ Failed("calculate_building_emissions", "ValueError",
                                     "Building not found", <<building_id>>)
            /\ UNCHANGED building
       ELSE LET component_data ==
                    get_components_for_building(building_id, links, components)
                loaded == Rehydrate(NewBuilding, component_data)
                modified == IF modifications # EmptyDict
                            THEN apply_modifications(loaded.building, modifications)
                            ELSE loaded.building
                result == calculate_total_emissions(modified, factors)
            IN  IF ~loaded.ok
                THEN /\ out' = [building_id |-> building_id]
                                    @@ Failed("calculate_building_emissions",
                                              loaded.kind, loaded.msg, loaded.args)
                     /\ building' = loaded.building
                ELSE /\ out' = [op |-> "calculate_building_emissions",
                                status |-> "ok",
                                total_emissions |-> result.total,
                                breakdown |-> result.breakdown,
                                written |-> result.written,
                                building_id |-> building_id,
                                component_count |-> Len(component_data),
                                modifications_applied |-> modifications]
                     /\ building' = modified
    /\ UNCHANGED <<factors, components, buildings, links, inst>>

Next ==
    \/ \E row \in ServiceInputs : ComponentService_create_component(row)
    \/ \E name \in BuildingNames : BuildingService_create_building(name)
    \/ \E building_id \in BuildingIds, component_id \in 1..MaxRows,
          quantity \in Quantities :
            BuildingService_add_component_to_building(building_id, component_id,
                                                      quantity)
    \/ \E building_id \in BuildingIds, modifications \in ServiceMods :
            BuildingService_calculate_building_emissions(building_id, modifications)

Spec == Init /\ [][Next]_vars

(***************************************************************************)
(* The requests that calculate: both services over the tables, with no     *)
(* component linked to a building.                                         *)
(***************************************************************************)
\* what clients store before they ask for a component's emissions: the rows
\* above and a component whose factor BuildingStore does not hold
CalculationInputs ==
    ServiceInputs \cup { Row("tap", "water", Water(N(2), N(1), S("standard"))) }

\* the except clauses of the routes: a ValueError is answered 404, any other
\* exception 500, a result 200
RouteStatus(result) ==
    IF result.status = "ok" THEN 200
    ELSE IF result.kind = "ValueError" THEN 404
    ELSE 500

\* the routers in the order main.py includes them
Routers == <<"buildings", "components", "emissions">>

\* the routes whose handlers calculate, by the router that declares them
RoutesOf(router) ==
    CASE router = "buildings" -> {"POST /buildings/{building_id}/calculate"}
      [] router = "components" -> {"POST /components/{component_id}/calculate"}
      [] router = "emissions" -> {"POST /buildings/{building_id}/calculate"}

\* the application serves a request with the first route that matches, in
\* the order of inclusion
Dispatch(route) ==
    Routers[CHOOSE i \in 1..Len(Routers) :
                /\ route \in RoutesOf(Routers[i])
                /\ \A j \in 1..(i - 1) : route \notin RoutesOf(Routers[j])]

\* the modifications the handler of a router hands to the service: the one of
\* buildings.py has no body parameter and passes {}, the one of emissions.py
\* passes request.modifications
HandlerModifications(router, request_modifications) ==
    IF router = "emissions" THEN request_modifications ELSE EmptyDict

\* BuildingService.calculate_building_emissions as a function of the tables:
\* what it returns or raises
calculate_building_emissions(building_id, modifications) ==
    IF ~\E i \in 1..Len(buildings) : buildings[i].id = building_id
    THEN Failed("calculate_building_emissions", "ValueError",
                "Building not found", <<building_id>>)
    ELSE LET component_data ==
                 get_components_for_building(building_id, links, components)
             loaded == Rehydrate(NewBuilding, component_data)
             modified == IF modifications # EmptyDict
                         THEN apply_modifications(loaded.building, modifications)
                         ELSE loaded.building
             result == calculate_total_emissions(modified, factors)
         IN  IF ~loaded.ok
             THEN Failed("calculate_building_emissions",
                         loaded.kind, loaded.msg, loaded.args)
             ELSE [op |-> "calculate_building_emissions",
                   status |-> "ok",
                   total_emissions |-> result.total,
                   breakdown |-> result.breakdown,
                   written |-> result.written,
                   building_id |-> building_id,
                   component_count |-> Len(component_data),
                   modifications_applied |-> modifications]

\* a client posts request_modifications to /buildings/{building_id}/calculate
POST_buildings_calculate(building_id, request_modifications) ==
    LET handler == Dispatch("POST /buildings/{building_id}/calculate")
        passed == HandlerModifications(handler, request_modifications)
        results == calculate_building_emissions(building_id, passed)
    IN  /\ out' = [op |-> "POST /buildings/{building_id}/calculate",
                   handler |-> handler,
                   request_modifications |-> request_modifications,
                   passed |-> passed,
                   http |-> RouteStatus(results)] @@ results
        /\ UNCHANGED <<factors, components, buildings, links, building, inst>>

NextCalculation ==
    \/ \E row \in CalculationInputs : ComponentService_create_component(row)
    \/ \E name \in BuildingNames : BuildingService_create_building(name)
    \/ \E building_id \in BuildingIds, modifications \in ServiceMods :
            BuildingService_calculate_building_emissions(building_id, modifications)
    \/ \E component_id \in 1..(MaxRows + 1),
          quantity \in ComponentQuantities :
            ComponentService_calculate_component_emissions(component_id, quantity)
    \/ \E building_id \in BuildingIds, request_modifications \in ServiceMods :
            POST_buildings_calculate(building_id, request_modifications)

SpecCalculation == Init /\ [][NextCalculation]_vars

(***************************************************************************)
(* Concurrent calculate_building_emissions requests. The tables are those  *)
(* clients stored before; building[r] is the Building local to request r   *)
(* and out[r] its position, arguments, locals and result. A request steps  *)
(* between its reads of the database, where another request may run.       *)
(***************************************************************************)
MaxRequests == 2
Requests == 1..MaxRequests

Link(id, building_id, component_id, quantity) ==
    [id |-> id, building_id |-> building_id, component_id |-> component_id,
     quantity |-> quantity]

\* the join rows clients stored for building 1
StoredLinks ==
    { << Link(1, 1, 1, 1) >>,
      << Link(1, 1, 1, 1), Link(2, 1, 2, 1) >>,
      << Link(1, 1, 2, 1), Link(2, 1, 1, 1), Link(3, 1, 3, 1) >> }

NoRequest == [pc |-> "idle", overlapped |-> FALSE]

\* another request is between its call and its return
OthersRunning(r) ==
    \E s \in Requests \ {r} : out[s].pc \notin {"idle", "done"}

InitConcurrent ==
    /\ factors = BuildingStore
    /\ components =
          << [id |-> 1] @@ Row("hvac", "energy", Energy(S("electricity"), N(1), N(1))),
             [id |-> 2] @@ Row("lamp", "energy", Energy(S("electricity"), N(0), N(3))),
             [id |-> 3] @@ Row("wall", "material",
                               ("material_name" :> S("concrete"))
                                   @@ ("density_kg_m3" :> N(2))) >>
    /\ buildings = << [id |-> 1, name |-> "office", location |-> "here"] >>
    /\ links \in StoredLinks
    /\ building = [r \in Requests |-> NewBuilding]
    /\ inst = NoInstance
    /\ out = [r \in Requests |-> NoRequest]

\* the service is called with its arguments
Request_call(r, building_id, modifications) ==
    /\ out[r].pc = "idle"
    /\ out' = [out EXCEPT ![r] = [pc |-> "called", building_id |-> building_id,
                                  modifications |-> modifications,
                                  overlapped |-> OthersRunning(r)]]
    /\ UNCHANGED <<factors, components, buildings, links, building, inst>>

\* building_repo.get_with_components, and the not-found raise
Request_read(r) ==
    /\ out[r].pc = "called"
    /\ IF ~\E i \in 1..Len(buildings) : buildings[i].id = out[r].building_id
       THEN out' = [out EXCEPT ![r] =
                        [pc |-> "done",
                         overlapped |-> out[r].overlapped \/ OthersRunning(r),
                         modifications |-> out[r].modifications]
                            @@ [building_id |-> out[r].building_id]
                            @@ Failed("calculate_building_emissions", "ValueError",
                                      "Building not found", <<out[r].building_id>>)]
       ELSE out' = [out EXCEPT ![r] =
                        [pc |-> "read",
                         overlapped |-> out[r].overlapped \/ OthersRunning(r),
                         building_data |->
                             get_components_for_building(out[r].building_id,
                                                         links, components)]
                            @@ out[r]]
    /\ UNCHANGED <<factors, components, buildings, links, building, inst>>

\* faulty variant of Request_build: the service keeps one Building, to which
\* every request adds its components
RequestBuildShared(r) ==
    LET loaded == Rehydrate(building[r], out[r].building_data) IN
    /\ out[r].pc = "read"
    /\ building' = [s \in Requests |-> loaded.building]
    /\ IF ~loaded.ok
       THEN out' = [out EXCEPT ![r] =
                        [pc |-> "done",
                         overlapped |-> out[r].overlapped \/ OthersRunning(r),
                         modifications |-> out[r].modifications]
                            @@ [building_id |-> out[r].building_id]
                            @@ Failed("calculate_building_emissions",
                                      loaded.kind, loaded.msg, loaded.args)]
       ELSE out' = [out EXCEPT ![r] =
                        [pc |-> "built",
                         overlapped |-> out[r].overlapped \/ OthersRunning(r)]
                            @@ out[r]]
    /\ UNCHANGED <<factors, components, buildings, links, inst>>

\* building = Building(...) and the loop that rehydrates and adds the
\* components of the rows read
Request_build(r) ==
    LET loaded == Rehydrate(NewBuilding, out[r].building_data) IN
    /\ out[r].pc = "read"
    /\ building' = [building EXCEPT ![r] = loaded.building]
    /\ IF ~loaded.ok
       THEN out' = [out EXCEPT ![r] =
                        [pc |-> "done",
                         overlapped |-> out[r].overlapped \/ OthersRunning(r),
                         modifications |-> out[r].modifications]
                            @@ [building_id |-> out[r].building_id]
                            @@ Failed("calculate_building_emissions",
                                      loaded.kind, loaded.msg, loaded.args)]
       ELSE out' = [out EXCEPT ![r] =
                        [pc |-> "built",
                         overlapped |-> out[r].overlapped \/ OthersRunning(r)]
                            @@ out[r]]
    /\ UNCHANGED <<factors, components, buildings, links, inst>>

\* if modifications: building.apply_modifications(modifications)
Request_apply(r) ==
    /\ out[r].pc = "built"
    /\ building' = [building EXCEPT ![r] =
                        IF out[r].modifications # EmptyDict
                        THEN apply_modifications(@, out[r].modifications)
                        ELSE @]
    /\ out' = [out EXCEPT ![r] =
                    [pc |-> "modified",
                     overlapped |-> out[r].overlapped \/ OthersRunning(r)]
                        @@ out[r]]
    /\ UNCHANGED <<factors, components, buildings, links, inst>>

\* building.calculate_total_emissions(), which reads the factors, and the
\* result returned
Request_calculate(r) ==
    LET result == calculate_total_emissions(building[r], factors) IN
    /\ out[r].pc = "modified"
    /\ out' = [out EXCEPT ![r] =
                    [pc |-> "done",
                     overlapped |-> out[r].overlapped \/ OthersRunning(r),
                     op |-> "calculate_building_emissions",
                     status |-> "ok",
                     total_emissions |-> result.total,
                     breakdown |-> result.breakdown,
                     written |-> result.written,
                     building_id |-> out[r].building_id,
                     component_count |-> Len(out[r].building_data),
                     modifications_applied |-> out[r].modifications,
                     modifications |-> out[r].modifications]]
    /\ UNCHANGED <<factors, components, buildings, links, building, inst>>

NextConcurrent ==
    \E r \in Requests :
        \/ \E building_id \in BuildingIds, modifications \in ServiceMods :
                Request_call(r, building_id, modifications)
        \/ Request_read(r)
        \/ Request_build(r)
        \/ Request_apply(r)
        \/ Request_calculate(r)

SpecConcurrent == InitConcurrent /\ [][NextConcurrent]_vars

(***************************************************************************)
(* The join table: components are linked to a building, their quantities   *)
(* are updated and the building is calculated.                             *)
(***************************************************************************)
\* the quantities clients send: the models declare quantity as int
LinkQuantities == {-1, 0, 2}

InitLinks ==
    /\ factors = BuildingStore
    /\ components =
          << [id |-> 1] @@ Row("hvac", "energy", Energy(S("electricity"), N(1), N(1))) >>
    /\ buildings = <<>>
    /\ links = <<>>
    /\ building = NewBuilding
    /\ inst = NoInstance
    /\ out = Idle("init")

\* ComponentsByBuildingRepository.update_component_quantity: the first join
\* record of the pair gets the quantity
BuildingService_update_component_quantity(building_id, component_id, quantity) ==
    LET join_record ==
            SelectSeq(links, LAMBDA l : /\ l.building_id = building_id
                                        /\ l.component_id = component_id)
    IN  /\ IF join_record = <<>>
           THEN /\ out' = Failed("update_component_quantity", "ValueError",
                                 "Component not found in building", <<>>)
                /\ UNCHANGED links
           ELSE /\ links' = [i \in 1..Len(links) |->
                                IF links[i].id = join_record[1].id
                                THEN [links[i] EXCEPT !.quantity = quantity]
                                ELSE links[i]]
                /\ out' = [op |-> "update_component_quantity", status |-> "ok",
                           quantity |-> quantity]
        /\ UNCHANGED <<factors, components, buildings, building, inst>>

NextLinks ==
    \/ \E name \in BuildingNames : BuildingService_create_building(name)
    \/ \E building_id \in BuildingIds, quantity \in LinkQuantities :
            BuildingService_add_component_to_building(building_id, 1, quantity)
    \/ \E building_id \in BuildingIds, quantity \in LinkQuantities :
            BuildingService_update_component_quantity(building_id, 1, quantity)
    \/ \E building_id \in BuildingIds :
            BuildingService_calculate_building_emissions(building_id, EmptyDict)

SpecLinks == InitLinks /\ [][NextLinks]_vars

(***************************************************************************)
(* EmissionFactorService over the emission_factors table.                  *)
(***************************************************************************)
\* the values clients send as emission_factor
FactorValues == {-1, 0, 2}

\* EmissionFactorCreate as a dict
FactorData ==
    { [name |-> "electricity", category |-> "energy", emission_factor |-> v] :
        v \in FactorValues }

\* EmissionFactorUpdate as a dict without its unset fields
FactorUpdates ==
    { ("emission_factor" :> v) : v \in FactorValues } \cup { ("name" :> "gas") }

\* the lists clients send to bulk_import_factors
BulkData ==
    { <<d>> : d \in FactorData } \cup { <<d, e>> : d, e \in FactorData }

\* the id the database gives the next row: the ids of the rows present are
\* distinct, which is all the service relies on
NextId(store) ==
    1 + (IF store = <<>> THEN 0
         ELSE CHOOSE m \in { store[i].id : i \in 1..Len(store) } :
                  \A i \in 1..Len(store) : store[i].id <= m)

\* faulty variant of create_emission_factor: the sign is not checked
CreateFactorUnchecked(store, emission_factor_data) ==
    [ok |-> TRUE, kind |-> "", msg |-> "",
     store |-> Append(store, [id |-> NextId(store)] @@ emission_factor_data)]

\* EmissionFactorService.create_emission_factor: the table afterwards, or the
\* error raised
create_emission_factor(store, emission_factor_data) ==
    IF emission_factor_data.emission_factor < 0
    THEN [ok |-> FALSE, kind |-> "ValueError",
          msg |-> "Emission factor must be positive", store |-> store]
    ELSE [ok |-> TRUE, kind |-> "", msg |-> "",
          store |-> Append(store, [id |-> NextId(store)] @@ emission_factor_data)]

\* EmissionFactorService.bulk_import_factors: each entry is created in turn,
\* an entry whose creation raises is counted as failed and the loop goes on
RECURSIVE bulk_import_factors(_, _)
bulk_import_factors(acc, factors_data) ==
    IF factors_data = <<>> THEN acc
    ELSE LET made == create_emission_factor(acc.store, Head(factors_data))
         IN  bulk_import_factors(
                 IF made.ok
                 THEN [acc EXCEPT !.store = made.store, !.successful = @ + 1]
                 ELSE [acc EXCEPT !.failed = @ + 1,
                                  !.errors = Append(@, [factor_data |-> Head(factors_data),
                                                        error |-> made.msg])],
                 Tail(factors_data))

InitFactors ==
    /\ factors = <<>>
    /\ components = <<>>
    /\ buildings = <<>>
    /\ links = <<>>
    /\ building = NewBuilding
    /\ inst = NoInstance
    /\ out = Idle("init")

\* the rows the table may hold and the ids the database may give are capped
Fits(store) ==
    /\ Len(store) <= MaxFactors
    /\ NextId(store) <= MaxFactors + 2

EmissionFactorService_create_emission_factor(emission_factor_data) ==
    LET made == create_emission_factor(factors, emission_factor_data) IN
    /\ Fits(made.store)
    /\ factors' = made.store
    /\ out' = IF made.ok
              THEN [op |-> "create_emission_factor", status |-> "ok",
                    data |-> emission_factor_data]
              ELSE [data |-> emission_factor_data]
                       @@ Failed("create_emission_factor", made.kind, made.msg, <<>>)
    /\ UNCHANGED <<components, buildings, links, building, inst>>

EmissionFactorService_update_emission_factor(factor_id, updates) ==
    /\ IF ~\E i \in 1..Len(factors) : factors[i].id = factor_id
       THEN /\ out' = [factor_id |-> factor_id, updates |-> updates]
                           @@ Failed("update_emission_factor", "ValueError",
                                     "Emission factor not found", <<factor_id>>)
            /\ UNCHANGED factors
       ELSE IF "emission_factor" \in DOMAIN updates /\ updates["emission_factor"] < 0
       THEN /\ out' = [factor_id |-> factor_id, updates |-> updates]
                           @@ Failed("update_emission_factor", "ValueError",
                                     "Emission factor must be positive", <<>>)
            /\ UNCHANGED factors
       ELSE /\ factors' = [i \in 1..Len(factors) |->
                              IF factors[i].id = factor_id
                              THEN Merged(factors[i], updates)
                              ELSE factors[i]]
            /\ out' = [op |-> "update_emission_factor", status |-> "ok",
                       factor_id |-> factor_id, updates |-> updates]
    /\ UNCHANGED <<components, buildings, links, building, inst>>

EmissionFactorService_delete_emission_factor(factor_id) ==
    /\ IF ~\E i \in 1..Len(factors) : factors[i].id = factor_id
       THEN /\ out' = [factor_id |-> factor_id]
                           @@ Failed("delete_emission_factor", "ValueError",
                                     "Emission factor not found", <<factor_id>>)
            /\ UNCHANGED factors
       ELSE /\ factors' = SelectSeq(factors, LAMBDA f : f.id # factor_id)
            /\ out' = [op |-> "delete_emission_factor", status |-> "ok",
                       factor_id |-> factor_id]
    /\ UNCHANGED <<components, buildings, links, building, inst>>

EmissionFactorService_bulk_import_factors(factors_data) ==
    LET done == bulk_import_factors([store |-> factors, successful |-> 0,
                                     failed |-> 0, errors |-> <<>>],
                                    factors_data)
    IN  /\ Fits(done.store)
        /\ factors' = done.store
        /\ out' = [op |-> "bulk_import_factors", status |-> "ok",
                   data |-> factors_data,
                   total_processed |-> Len(factors_data),
                   successful |-> done.successful,
                   failed |-> done.failed,
                   errors |-> done.errors]
        /\ UNCHANGED <<components, buildings, links, building, inst>>

NextFactors ==
    \/ \E emission_factor_data \in FactorData :
            EmissionFactorService_create_emission_factor(emission_factor_data)
    \/ \E factor_id \in 1..(MaxFactors + 1), updates \in FactorUpdates :
            EmissionFactorService_update_emission_factor(factor_id, updates)
    \/ \E factor_id \in 1..(MaxFactors + 1) :
            EmissionFactorService_delete_emission_factor(factor_id)
    \/ \E factors_data \in BulkData :
            EmissionFactorService_bulk_import_factors(factors_data)

SpecFactors == InitFactors /\ [][NextFactors]_vars

(***************************************************************************)
(* Properties of Building.calculate_total_emissions (SpecBuilding).        *)
(***************************************************************************)
RECURSIVE SumTo(_, _)
SumTo(f, n) == IF n = 0 THEN 0 ELSE f[n] + SumTo(f, n - 1)

Calculated == out.op = "calculate_total_emissions"
Items == building.components
\* what calculate_emissions gives for the i-th component of the Building
CalcOf(i) == calculate_emissions(Items[i].component, Items[i].quantity, factors)
PercentSum == SumTo([i \in 1..Len(out.breakdown) |->
                        out.breakdown[i].entry.percentage], Len(out.breakdown))

\* whether no other component of the building has the name of the i-th
UniqueName(i) ==
    \A j \in 1..Len(Items) :
        j # i => Items[j].component.name # Items[i].component.name

\* the entry the returned breakdown holds under the name of the i-th component
EntryOf(i) ==
    LET k == CHOOSE k \in 1..Len(out.breakdown) :
                 out.breakdown[k].name = Items[i].component.name
    IN  out.breakdown[k].entry

\* C1: when calculate_emissions fails for a component, the loop goes on: one
\* entry is recorded per component, the entry recorded for the failed one is
\* {emissions: 0, quantity, type, error: message} without a percentage (and
\* is the one returned under its name when the name is its own), and every
\* later component is calculated and recorded with its own result.
C1_FailureRecordedAndLoopContinues ==
    Calculated =>
        /\ Len(out.written) = Len(Items)
        /\ \A i \in 1..Len(Items) :
              ~CalcOf(i).ok =>
                /\ out.written[i] =
                      [emissions |-> 0, quantity |-> Items[i].quantity,
                       type |-> Items[i].component.component_type,
                       has_percentage |-> FALSE, percentage |-> 0,
                       has_error |-> TRUE,
                       error |-> <<CalcOf(i).msg, CalcOf(i).args>>]
                /\ UniqueName(i) => EntryOf(i) = out.written[i]
                /\ \A j \in (i + 1)..Len(Items) :
                      /\ out.written[j].quantity = Items[j].quantity
                      /\ out.written[j].has_error = ~CalcOf(j).ok
                      /\ CalcOf(j).ok => out.written[j].emissions = CalcOf(j).value
                      /\ \E k \in 1..Len(out.breakdown) :
                            out.breakdown[k].name = Items[j].component.name

\* a ValueError and a TypeError were recorded, and a later component was
\* still calculated and counted
C1_Witness ==
    /\ Calculated
    /\ \E i, j, k \in 1..Len(Items) :
          /\ i < k /\ j < k
          /\ ~CalcOf(i).ok /\ CalcOf(i).kind = "ValueError"
          /\ ~CalcOf(j).ok /\ CalcOf(j).kind = "TypeError"
          /\ CalcOf(k).ok /\ CalcOf(k).value > 0
          /\ out.written[i].has_error /\ out.written[j].has_error
          /\ out.total = CalcOf(k).value

\* C3: the total is the sum, rounded to 2 decimals, of the emissions of
\* exactly the components whose calculation succeeded; a failed component
\* adds 0 and the entry recorded for it (the one returned under its name
\* when the name is its own) carries an error.
C3_TotalIsSumOfSucceeded ==
    Calculated =>
        /\ out.total = Round2(SumTo([i \in 1..Len(Items) |->
                                        IF CalcOf(i).ok THEN CalcOf(i).value ELSE 0],
                                    Len(Items)), 100)
        /\ \A i \in 1..Len(out.written) :
              ~CalcOf(i).ok => /\ out.written[i].emissions = 0
                               /\ out.written[i].has_error
                               /\ UniqueName(i) => EntryOf(i).has_error

C3_Witness ==
    /\ Calculated
    /\ \E i, j, k \in 1..Len(Items) :
          /\ i # j
          /\ CalcOf(i).ok /\ CalcOf(i).value > 0
          /\ CalcOf(j).ok /\ CalcOf(j).value > 0
          /\ ~CalcOf(k).ok
          /\ out.total = CalcOf(i).value + CalcOf(j).value

\* C4 as stated: the percentages of a breakdown sum to at most 100 (taken
\* here on the buildings none of whose components has negative emissions;
\* with a negative one a single percentage already exceeds 100).
C4_PercentagesAtMost100 ==
    (Calculated /\ \A i \in 1..Len(out.written) : out.written[i].emissions >= 0)
        => PercentSum <= 10000

PositiveEntries == {i \in 1..Len(out.breakdown) : out.breakdown[i].entry.emissions > 0}
PositiveSum == SumTo([i \in 1..Len(out.breakdown) |->
                        IF i \in PositiveEntries
                        THEN out.breakdown[i].entry.emissions ELSE 0],
                     Len(out.breakdown))

\* C4 amended: each percentage is the entry's share of the total rounded to
\* 2 decimals, so with total T > 0, P the sum of the positive emissions in
\* the breakdown and n their number, the percentages sum to at most
\* 100 * P / T + 0.005 * n; in particular to at most 100 + 0.005 * n when no
\* component has negative emissions.  With T <= 0 they sum to 0.
C4_PercentagesWithinRounding ==
    Calculated =>
        /\ out.total > 0 =>
              2 * out.total * PercentSum
                  <= 20000 * PositiveSum + Cardinality(PositiveEntries) * out.total
        /\ out.total <= 0 => PercentSum = 0
        /\ (\A i \in 1..Len(out.written) : out.written[i].emissions >= 0) =>
              2 * PercentSum <= 20000 + Cardinality(PositiveEntries)

\* three positive shares whose rounded percentages sum to more than 100
C4_Witness ==
    /\ Calculated
    /\ out.total > 0
    /\ Cardinality(PositiveEntries) = 3
    /\ \A i \in 1..Len(out.written) : out.written[i].emissions >= 0
    /\ PercentSum > 10000

\* C5: when the total is 0, no breakdown entry has a nonzero percentage.
C5_ZeroTotalNoPercentage ==
    (Calculated /\ out.total = 0) =>
        \A i \in 1..Len(out.breakdown) : out.breakdown[i].entry.percentage = 0

\* total 0 with a component that succeeded with emissions 0 and one that failed
C5_Witness ==
    /\ Calculated
    /\ out.total = 0
    /\ \E i, j \in 1..Len(out.breakdown) :
          /\ ~out.breakdown[i].entry.has_error
          /\ out.breakdown[i].entry.has_percentage
          /\ out.breakdown[j].entry.has_error

\* what the formula would give with the overrides merged into the values
\* it reads
WithOverrides(c) == [c EXCEPT !.metadata = Merged(c.metadata, c.parameters)]
CalcWithOverridesOf(i) ==
    calculate_emissions(WithOverrides(Items[i].component), Items[i].quantity, factors)

\* C6 as stated: after apply_modifications, calculate_total_emissions
\* computes each named component from the overridden values.
C6_CalculatesFromOverrides ==
    Calculated =>
        \A i \in 1..Len(Items) :
            /\ out.written[i].has_error = ~CalcWithOverridesOf(i).ok
            /\ CalcWithOverridesOf(i).ok =>
                  out.written[i].emissions = CalcWithOverridesOf(i).value

\* whether the i-th component is an Energy component of efficiency 0 whose
\* other inputs are in order (numeric consumption, one matching factor)
ZeroEfficiency(i) ==
    LET c == Items[i].component IN
    /\ c.component_type = "energy"
    /\ c.metadata["efficiency"] = N(0)
    /\ c.metadata["annual_consumption_kwh"].t = "num"
    /\ _get_energy_emission_factor(c.metadata, factors).ok

\* C13: an Energy component of efficiency 0 does not return a number and
\* raises no division error: its calculation fails with the ValueError
\* "Efficiency cannot be zero", and in a building the entry recorded for it
\* is the error entry carrying that message, with emissions 0.
C13_ZeroEfficiencyIsInvalidParameter ==
    Calculated =>
        \A i \in 1..Len(Items) :
            ZeroEfficiency(i) =>
                /\ ~CalcOf(i).ok
                /\ CalcOf(i).kind = "ValueError"
                /\ CalcOf(i).msg = "Efficiency cannot be zero"
                /\ out.written[i] = ErrorEntry(Items[i].component,
                                               Items[i].quantity, CalcOf(i))
                /\ out.written[i].emissions = 0
                /\ out.written[i].error[1] = "Efficiency cannot be zero"
                /\ UniqueName(i) => EntryOf(i) = out.written[i]

\* a building whose only hvac has efficiency 0, calculated next to a
\* component that succeeded
C13_Witness ==
    /\ Calculated
    /\ \E i, j \in 1..Len(Items) :
          /\ ZeroEfficiency(i) /\ UniqueName(i)
          /\ EntryOf(i).has_error
          /\ EntryOf(i).error[1] = "Efficiency cannot be zero"
          /\ CalcOf(j).ok /\ CalcOf(j).value > 0
          /\ out.total = CalcOf(j).value

FactoryCalled == out.op = "create_component"
Emitted == out.op = "calculate_emissions"

\* the component inst.comp would be if every persisted key were carried
\* into the values its formula reads
Verbatim == [inst.comp EXCEPT !.metadata = Merged(@, inst.row.metadata)]

\* C7 as stated: a rehydrated component calculates from every key of the
\* persisted metadata, the optional ones included.
C7_OptionalKeysUsed ==
    Emitted => out.result = calculate_emissions(Verbatim, out.quantity, factors)

\* the key a variant looks its factor up by
LookupKey(c) ==
    CASE c.component_type = "energy" -> c.metadata["energy_source"]
      [] c.component_type = "material" -> c.metadata["material_name"]
      [] OTHER -> c.metadata["treatment_type"]

\* the rows of the table that match the component's (key, category)
Matches(c) ==
    { i \in 1..Len(factors) : /\ LookupKey(c).t = "str"
                              /\ factors[i].name = LookupKey(c).s
                              /\ factors[i].category = c.component_type }

\* C8: for every variant, no matching row gives the not-found error, two or
\* more give the ambiguous error, and exactly one makes the calculation use
\* that row's emission_factor (the result is the one obtained against a
\* table holding that row alone).
C8_FactorLookup ==
    Emitted =>
        LET n == Cardinality(Matches(inst.comp)) IN
        /\ n = 0 => /\ ~out.result.ok
                    /\ out.result.kind = "ValueError"
                    /\ out.result.msg = "No emission factors found for"
        /\ n >= 2 => /\ ~out.result.ok
                     /\ out.result.kind = "ValueError"
                     /\ out.result.msg = "Multiple emission factors found for"
        /\ n = 1 =>
              /\ out.result.msg \notin {"No emission factors found for",
                                        "Multiple emission factors found for"}
              /\ \A i \in Matches(inst.comp) :
                    out.result = calculate_emissions(inst.comp, out.quantity,
                                                     <<factors[i]>>)

\* a water component against a table with two matching rows
C8_Witness ==
    /\ Emitted
    /\ inst.comp.component_type = "water"
    /\ Cardinality(Matches(inst.comp)) = 2
    /\ out.result.msg = "Multiple emission factors found for"

RequiredOf(tag) ==
    CASE tag = "energy" -> EnergyRequired
      [] tag = "material" -> MaterialRequired
      [] OTHER -> WaterRequired

KnownTags == {"energy", "material", "water"}
Range(s) == { s[i] : i \in 1..Len(s) }

\* C9: for a known type, metadata lacking required keys is refused with an
\* error that lists every missing key once, and a component is returned
\* only when none is missing.
C9_AllMissingKeysListed ==
    (FactoryCalled /\ Lower(out.row.component_type) \in KnownTags) =>
        LET required == Range(RequiredOf(Lower(out.row.component_type)))
            missing == required \ DOMAIN out.row.metadata
        IN  /\ out.result.ok <=> missing = {}
            /\ missing # {} =>
                  /\ out.result.kind = "ValueError"
                  /\ out.result.msg = "Missing required metadata"
                  /\ Range(out.result.args) = missing
                  /\ Len(out.result.args) = Cardinality(missing)
            /\ ~out.result.ok => out.result.comp = NoComponent

\* a refusal that lists three missing keys
C9_Witness ==
    /\ FactoryCalled
    /\ ~out.result.ok
    /\ out.result.msg = "Missing required metadata"
    /\ Len(out.result.args) = 3

\* C10 as stated: a material needs material_name only.
C10_MaterialNeedsNameOnly ==
    (FactoryCalled /\ Lower(out.row.component_type) = "material"
              /\ "material_name" \in DOMAIN out.row.metadata) =>
        /\ out.result.ok
        /\ out.result.comp.component_type = "material"

\* C11 as stated: every tag outside {energy, material, water} is refused as
\* an unknown component type, and a known tag gives its own variant.
C11_UnknownTypeRefused ==
    FactoryCalled =>
        /\ out.row.component_type \notin KnownTags =>
              /\ ~out.result.ok
              /\ out.result.kind = "ValueError"
              /\ out.result.msg = "Unknown component type"
        /\ out.row.component_type \in KnownTags =>
              /\ out.result.msg # "Unknown component type"
              /\ out.result.ok =>
                    out.result.comp.component_type = out.row.component_type

\* C11 amended: the tag is lower-cased first; a tag whose lower-case form is
\* outside {energy, material, water} is refused as an unknown component type
\* (the message names the lower-cased tag), and any other tag is dispatched
\* to the variant of its lower-case form, never refused as unknown.
C11_UnknownTypeRefusedAfterLower ==
    FactoryCalled =>
        LET tag == Lower(out.row.component_type) IN
        /\ tag \notin KnownTags =>
              /\ ~out.result.ok
              /\ out.result.kind = "ValueError"
              /\ out.result.msg = "Unknown component type"
              /\ out.result.args = <<tag>>
              /\ out.result.comp = NoComponent
        /\ tag \in KnownTags =>
              /\ out.result.msg # "Unknown component type"
              /\ out.result.ok => /\ out.result.comp.component_type = tag
                                  /\ out.result.comp.name = out.row.name

\* the reserved tag transport was refused although its metadata would make
\* an energy component
C11_Witness ==
    /\ FactoryCalled
    /\ out.row.component_type = "transport"
    /\ MissingFrom(EnergyRequired, out.row.metadata) = <<>>
    /\ ~out.result.ok
    /\ out.result.msg = "Unknown component type"

\* the factor of the single row matching the component's lookup key
TheFactor(c) == factors[CHOOSE i \in Matches(c) : TRUE].emission_factor

IsNum(d, k) == k \in DOMAIN d /\ d[k].t = "num"

\* a valid Energy component was calculated: numeric consumption, nonzero
\* numeric efficiency, numeric embodied emissions if any, one matching factor
ValidEnergyEmitted ==
    /\ Emitted
    /\ inst.comp.component_type = "energy"
    /\ IsNum(inst.row.metadata, "annual_consumption_kwh")
    /\ IsNum(inst.row.metadata, "efficiency")
    /\ inst.row.metadata["efficiency"].n # 0
    /\ Get(inst.row.metadata, "embodied_emissions", N(0)).t = "num"
    /\ Cardinality(Matches(inst.comp)) = 1

\* C12 as stated: a valid Energy component, rehydrated from persisted
\* metadata that may carry embodied_emissions, emits
\* round((annual_consumption_kwh / efficiency) * factor * q
\*       + embodied_emissions * q, 2), embodied_emissions defaulting to 0.
C12_EnergyFormula ==
    ValidEnergyEmitted =>
        LET md == inst.row.metadata
            kwh == md["annual_consumption_kwh"].n
            eff == md["efficiency"].n
            embodied == Get(md, "embodied_emissions", N(0)).n
            q == out.quantity
        IN  /\ out.result.ok
            /\ out.result.value =
                  Round2(kwh * TheFactor(inst.comp) * q + embodied * q * eff, eff)

\* a persisted material row with a name and no optional term: density and
\* volume are numbers or null where present
PlainMaterialRow(row) ==
    /\ Lower(row.component_type) = "material"
    /\ "material_name" \in DOMAIN row.metadata
    /\ DOMAIN row.metadata \subseteq {"material_name", "density_kg_m3", "volume_m3"}
    /\ \A k \in DOMAIN row.metadata \ {"material_name"} :
            row.metadata[k].t \in {"num", "none"}

\* whether key k of d is set and nonzero
SetNonzero(d, k) == k \in DOMAIN d /\ d[k].t = "num" /\ d[k].n # 0

\* C14 as stated: a valid Material component is built whether or not density
\* and volume are given, and its base term is volume_m3 * density_kg_m3 *
\* factor, whatever the quantity, when both are set and nonzero, and
\* quantity * factor when either is absent or zero (seen on rows without
\* recycling or transport, whose result is the rounded base term).
C14_MaterialBaseTerm ==
    /\ (FactoryCalled /\ PlainMaterialRow(out.row)) => out.result.ok
    /\ (Emitted /\ PlainMaterialRow(inst.row)
               /\ Cardinality(Matches(inst.comp)) = 1) =>
          LET md == inst.row.metadata
              f == TheFactor(inst.comp)
          IN  /\ out.result.ok
              /\ out.result.value =
                    IF SetNonzero(md, "density_kg_m3") /\ SetNonzero(md, "volume_m3")
                    THEN 100 * md["volume_m3"].n * md["density_kg_m3"].n * f
                    ELSE 100 * out.quantity * f

\* a Material component was calculated whose inputs other than the
\* recycling rate are in order: numeric density, volume and distance, one
\* matching factor
MaterialEmitted ==
    /\ Emitted
    /\ inst.comp.component_type = "material"
    /\ IsNum(inst.comp.metadata, "density_kg_m3")
    /\ IsNum(inst.comp.metadata, "volume_m3")
    /\ Get(inst.comp.metadata, "transport_distance_km", N(0)).t = "num"
    /\ Cardinality(Matches(inst.comp)) = 1

\* the base term and the transport term of the calculated Material component,
\* the latter in ten-thousandths
BaseTerm ==
    LET md == inst.comp.metadata IN
    IF md["density_kg_m3"].n # 0 /\ md["volume_m3"].n # 0
    THEN md["volume_m3"].n * md["density_kg_m3"].n * TheFactor(inst.comp)
    ELSE out.quantity * TheFactor(inst.comp)

TransportTerm ==
    LET distance == Get(inst.comp.metadata, "transport_distance_km", N(0)).n
    IN  IF distance <= 0 THEN 0 ELSE out.quantity * distance

\* C15 as stated: a Material component whose recycling_rate is 0, None or
\* absent is calculated without error and without reduction, and one whose
\* recycling_rate is 50 with half the pre-transport term.
C15_RecyclingRate ==
    MaterialEmitted =>
        LET rate == Get(inst.comp.metadata, "recycling_rate", N(0)) IN
        /\ rate \in {N(0), None} =>
              /\ out.result.ok
              /\ out.result.value =
                    Round2(BaseTerm * TransportFactorDen + TransportTerm,
                           TransportFactorDen)
        /\ rate = N(50) =>
              /\ out.result.ok
              /\ out.result.value =
                    Round2(BaseTerm * (TransportFactorDen \div 2) + TransportTerm,
                           TransportFactorDen)

\* a valid Water component was calculated: numeric consumption, treatment
\* factor and pumping energy (if any), one matching factor
WaterEmitted ==
    /\ Emitted
    /\ inst.comp.component_type = "water"
    /\ IsNum(inst.comp.metadata, "annual_consumption_liters")
    /\ IsNum(inst.comp.metadata, "water_treatment_factor")
    /\ Get(inst.comp.metadata, "pumping_energy_kwh", N(0)).t = "num"
    /\ Cardinality(Matches(inst.comp)) = 1

\* annual_consumption_liters * water_treatment_factor * factor * q, doubled
TreatmentTermTwice ==
    2 * inst.comp.metadata["annual_consumption_liters"].n
      * inst.comp.metadata["water_treatment_factor"].n
      * TheFactor(inst.comp) * out.quantity

PumpingEnergy == Get(inst.comp.metadata, "pumping_energy_kwh", N(0)).n

BuildingCalculated == out.op = "calculate_building_emissions"

BuildingExists(building_id) ==
    \E i \in 1..Len(buildings) : buildings[i].id = building_id

\* C2 as stated: for an existing building the calculation is never aborted
\* by one bad component row; it returns a total and a breakdown.
C2_BadRowNeverAbortsRequest ==
    (/\ BuildingCalculated
     /\ \E i \in 1..Len(buildings) : buildings[i].id = out.building_id)
        => out.status = "ok"

\* C18: calculate_building_emissions for an id that matches no building row
\* raises the not-found ValueError naming that id, and does so before a
\* Building is made or any component rehydrated: the Building last built is
\* left as it was and nothing is calculated.
C18_MissingBuildingNotFound ==
    [][(/\ out'.op = "calculate_building_emissions"
        /\ ~BuildingExists(out'.building_id)) =>
          /\ out'.status = "raised"
          /\ out'.kind = "ValueError"
          /\ out'.msg = "Building not found"
          /\ out'.args = <<out'.building_id>>
          /\ building' = building]_vars

\* the id of no building was asked for while another building, with
\* components, exists and has been calculated
C18_Witness ==
    /\ BuildingCalculated
    /\ ~BuildingExists(out.building_id)
    /\ out.status = "raised"
    /\ out.msg = "Building not found"
    /\ out.args = <<out.building_id>>
    /\ buildings # <<>>
    /\ links # <<>>
    /\ building.components # <<>>

(***************************************************************************)
(* Properties of the requests that calculate (SpecCalculation).            *)
(***************************************************************************)
CalculationRequested ==
    out.op \in {"calculate_building_emissions", "calculate_component_emissions"}

\* the building or the component the request names has a record
SubjectExists ==
    IF out.op = "calculate_building_emissions"
    THEN BuildingExists(out.building_id)
    ELSE get_by_id(out.component_id, components) # <<>>

\* the error the services raise for a missing record, and its answer
NotFoundKind == "ValueError"
NotFoundStatus == RouteStatus([status |-> "raised", kind |-> NotFoundKind])

\* C19: a request that fails although its building or component exists fails
\* with another error kind, and is answered with another status, than the
\* request for a missing building or component.
C19_NotFoundDistinguishable ==
    (CalculationRequested /\ out.status = "raised" /\ SubjectExists) =>
        /\ out.kind # NotFoundKind
        /\ RouteStatus(out) # NotFoundStatus

ComponentCalculated == out.op = "calculate_component_emissions"

\* C20: calculate_component_emissions raises "Component not found" for an id
\* without a record; for a stored component it raises the error of the
\* factory or of the calculation and returns no result; otherwise the result
\* carries the id, the name and type of the record, the given quantity and
\* the emissions the variant calculates.
C20_ComponentEmissions ==
    ComponentCalculated =>
        LET found == get_by_id(out.component_id, components) IN
        IF found = <<>>
        THEN /\ out.status = "raised"
             /\ out.kind = "ValueError"
             /\ out.msg = "Component not found"
             /\ out.args = <<out.component_id>>
        ELSE LET row == found[1]
                 made == create_component(row.component_type, row.name,
                                          row.metadata)
                 emissions == calculate_emissions(made.comp, out.quantity,
                                                  factors)
             IN  IF ~made.ok
                 THEN /\ out.status = "raised"
                      /\ <<out.kind, out.msg, out.args>>
                            = <<made.kind, made.msg, made.args>>
                      /\ "emissions" \notin DOMAIN out
                 ELSE IF ~emissions.ok
                 THEN /\ out.status = "raised"
                      /\ <<out.kind, out.msg, out.args>>
                            = <<emissions.kind, emissions.msg, emissions.args>>
                      /\ "emissions" \notin DOMAIN out
                 ELSE /\ out.status = "ok"
                      /\ out.component_id = row.id
                      /\ out.component_name = row.name
                      /\ out.component_type = row.component_type
                      /\ out.quantity \in ComponentQuantities
                      /\ out.emissions = emissions.value

\* a stored component is calculated for quantity 2 while the table also holds
\* a component whose factor is missing
C20_Witness ==
    /\ ComponentCalculated
    /\ out.status = "ok"
    /\ out.component_name = "hvac"
    /\ out.quantity = 2
    /\ out.emissions > 0
    /\ \E i \in 1..Len(components) : components[i].name = "tap"

(***************************************************************************)
(* Properties of concurrent requests (SpecConcurrent).                     *)
(***************************************************************************)
\* what calculate_building_emissions returns for the stored rows when it
\* runs alone
AloneBuilding(building_id, modifications) ==
    LET loaded == Rehydrate(NewBuilding,
                            get_components_for_building(building_id, links,
                                                        components))
    IN  IF ~loaded.ok THEN loaded.building
        ELSE IF modifications # EmptyDict
        THEN apply_modifications(loaded.building, modifications)
        ELSE loaded.building

AloneFails(building_id) ==
    \/ ~BuildingExists(building_id)
    \/ ~Rehydrate(NewBuilding,
                  get_components_for_building(building_id, links, components)).ok

RequestDone(r) == out[r].pc = "done"

\* C21: whatever the interleaving, no step of a request changes a table, and
\* a request that has returned holds the Building, and returned the total and
\* breakdown, that the same call gives when it runs alone with its own
\* modifications.
C21_RequestsIndependent ==
    [][/\ <<factors, components, buildings, links>>'
            = <<factors, components, buildings, links>>
       /\ \A r \in Requests :
            RequestDone(r)' =>
                LET o == out'[r] IN
                IF AloneFails(o.building_id)
                THEN o.status = "raised"
                ELSE LET alone == AloneBuilding(o.building_id, o.modifications)
                         result == calculate_total_emissions(alone, factors)
                     IN  /\ o.status = "ok"
                         /\ building'[r] = alone
                         /\ o.total_emissions = result.total
                         /\ o.breakdown = result.breakdown
                         /\ o.written = result.written
                         /\ o.modifications_applied = o.modifications]_vars

\* two requests on the same building, one with modifications and one without,
\* both ran while the other was running and both have returned
C21_Witness ==
    /\ \A r \in Requests : RequestDone(r) /\ out[r].status = "ok"
    /\ out[1].overlapped /\ out[2].overlapped
    /\ out[1].building_id = out[2].building_id
    /\ out[1].modifications # EmptyDict
    /\ out[2].modifications = EmptyDict
    /\ out[1].total_emissions > 0
    /\ building[1] # building[2]

(***************************************************************************)
(* Properties of the calculation endpoint (SpecCalculation).               *)
(***************************************************************************)
Posted == out.op = "POST /buildings/{building_id}/calculate"

\* C22: a POST /buildings/{building_id}/calculate that is answered with a
\* result handed the modifications of the request to the service, and
\* modifications_applied of the response equals them.
C22_EndpointAppliesModifications ==
    (Posted /\ out.status = "ok") =>
        /\ out.passed = out.request_modifications
        /\ out.modifications_applied = out.request_modifications

(***************************************************************************)
(* Properties of Building.apply_modifications (SpecBuilding).              *)
(***************************************************************************)
Applied == out.op = "apply_modifications"

\* C23: apply_modifications(mods) keeps the length and the order of the
\* component list and every quantity, leaves each component whose name is
\* not a key of mods as it was, changes of a named component nothing but its
\* parameters, into which mods[name] is merged, and writes no table.
C23_ApplyChangesNamedParametersOnly ==
    [][Applied' =>
        LET mods == building'.modifications
            before == building.components
            after == building'.components
        IN  /\ Len(after) = Len(before)
            /\ \A i \in 1..Len(before) :
                /\ after[i].quantity = before[i].quantity
                /\ after[i].component.name = before[i].component.name
                /\ after[i].component.component_type
                        = before[i].component.component_type
                /\ after[i].component.metadata = before[i].component.metadata
                /\ IF before[i].component.name \in DOMAIN mods
                   THEN after[i].component.parameters
                            = Merged(before[i].component.parameters,
                                     mods[before[i].component.name])
                   ELSE after[i] = before[i]
            /\ <<factors, components, buildings, links>>'
                    = <<factors, components, buildings, links>>]_vars

\* modifications were applied to a Building that holds a component they name
\* and, after it, a component they do not name
C23_Witness ==
    /\ Applied
    /\ \E i, j \in 1..Len(Items) :
        /\ i < j
        /\ Items[i].component.name \in DOMAIN building.modifications
        /\ Items[i].component.parameters # EmptyDict
        /\ Items[j].component.name \notin DOMAIN building.modifications
        /\ Items[j].component.parameters = EmptyDict
        /\ Items[j].quantity # Items[i].quantity

\* whether no two components of the building share a name
UniqueNames == \A i \in 1..Len(Items) : UniqueName(i)

\* C24: the breakdown lists the components in the order in which they were
\* added: its i-th entry is that of the i-th component, with its name,
\* quantity and type, whether its calculation succeeded or failed.
C24_BreakdownInAddOrder ==
    Calculated =>
        /\ Len(out.breakdown) = Len(Items)
        /\ \A i \in 1..Len(Items) :
            /\ out.breakdown[i].name = Items[i].component.name
            /\ out.breakdown[i].entry.quantity = Items[i].quantity
            /\ out.breakdown[i].entry.type = Items[i].component.component_type
            /\ out.breakdown[i].entry.has_error
                    = ~calculate_emissions(Items[i].component, Items[i].quantity,
                                           factors).ok

(***************************************************************************)
(* Properties of the transport term of a Material component                *)
(* (SpecComponent).                                                        *)
(***************************************************************************)
\* the share of the base term kept after recycling, in percent
KeptPercent ==
    LET rate == Get(inst.comp.metadata, "recycling_rate", N(0)).n
    IN  IF rate > 0 THEN PercentDen - rate ELSE PercentDen

\* C25: the emissions of a Material component are its base term after
\* recycling plus a transport term that is 0 when transport_distance_km is
\* absent or <= 0 and quantity * transport_distance_km * 0.0001 otherwise;
\* with density and volume set the base term does not depend on quantity.
C25_TransportTerm ==
    (MaterialEmitted /\ IsNum(inst.comp.metadata, "recycling_rate")) =>
        LET md == inst.comp.metadata
            claimed == IF "transport_distance_km" \notin DOMAIN md THEN 0
                       ELSE IF md["transport_distance_km"].n <= 0 THEN 0
                       ELSE out.quantity * md["transport_distance_km"].n
        IN  /\ out.result.ok
            /\ out.result.value =
                  Round2(BaseTerm * KeptPercent * (TransportFactorDen \div PercentDen)
                             + claimed, TransportFactorDen)

\* a Material component with density, volume and a distance of 100 km was
\* calculated for quantity 1: the transport term is 0.01
C25_Witness ==
    /\ MaterialEmitted
    /\ IsNum(inst.comp.metadata, "recycling_rate")
    /\ inst.comp.metadata["density_kg_m3"].n > 0
    /\ Get(inst.comp.metadata, "transport_distance_km", N(0)) = N(100)
    /\ out.quantity = 1
    /\ out.result.ok
    /\ out.result.value
          = 1 + Round2(BaseTerm * KeptPercent, PercentDen)

(***************************************************************************)
(* Properties of the emission-factor store (SpecFactors).                  *)
(***************************************************************************)
\* the entries of a list whose emission_factor is not negative, in order
NonNegative(factors_data) ==
    SelectSeq(factors_data, LAMBDA d : d.emission_factor >= 0)

\* a row without its id
Unnumbered(row) == [k \in DOMAIN row \ {"id"} |-> row[k]]

C27_QuantitiesNonNegative ==
    /\ \A i \in 1..Len(links) : links[i].quantity >= 0
    /\ BuildingCalculated =>
          \A i \in 1..Len(building.components) :
              building.components[i].quantity >= 0

(***************************************************************************)
(* Properties of the stored components (SpecCalculation).                  *)
(***************************************************************************)
\* C28: every component that ComponentService.create_component stored is
\* rehydrated by ComponentFactory.create_component without an error.
C28_StoredComponentsRehydrate ==
    \A i \in 1..Len(components) :
        create_component(components[i].component_type, components[i].name,
                         components[i].metadata).ok

(***************************************************************************)
(* Properties of the breakdown of a Building with shared names             *)
(* (SpecBuilding).                                                          *)
(***************************************************************************)
\* C29: the breakdown has one entry per (component, quantity) pair of the
\* Building, also when two components share a name, and the emissions of its
\* entries add up to the total.
C29_OneEntryPerComponent ==
    Calculated =>
        /\ Len(out.breakdown) = get_component_count(building)
        /\ SumTo([k \in 1..Len(out.breakdown) |-> out.breakdown[k].entry.emissions],
                 Len(out.breakdown)) = out.total

(***************************************************************************)
(* Properties of BuildingService.create_building (Spec).                   *)
(***************************************************************************)
\* C30: create_building is all-or-nothing: a call that reports an error
\* leaves no building record behind, and a call that succeeds has stored the
\* building row.
C30_CreateBuildingAllOrNothing ==
    [][out'.op = "create_building" =>
        IF out'.status = "raised"
        THEN buildings' = buildings /\ links' = links
        ELSE Len(buildings') = Len(buildings) + 1]_vars
====
